---- MODULE Spec2Model ----
(***************************************************************************)
(* A model of the pixian_ai client: the PixianAI.remove_background call    *)
(* (src/pixian_ai/client.py) and the validators it uses                    *)
(* (src/pixian_ai/utils.py).                                               *)
(*                                                                         *)
(* Python values are records [t, s, n]: t is the runtime type, s the       *)
(* characters of a str (a sequence of one-character strings), n the        *)
(* number of an int or a bool (True is 1, False is 0).                     *)
(***************************************************************************)
EXTENDS Integers, Sequences, FiniteSets, TLC

VARIABLES
    api_id,      \* self.api_id
    api_secret,  \* self.api_secret
    profile,     \* the family of calls the caller makes (fixed by Init)
    pc,          \* the position of the current remove_background call
    kwargs,      \* the arguments of the current call, as the caller gave them
    data,        \* the local `data` dict of the call
    files,       \* the local `files` dict of the call
    handle,      \* the file object opened from image_path: none, open, closed
    opened,      \* the open() calls made by the current call
    posts,       \* the requests.post calls made by the current call
    response,    \* the local `response` of the call
    outcome      \* what the call gave its caller: nothing yet, a result, an exception

vars == <<api_id, api_secret, profile, pc, kwargs, data, files, handle,
          opened, posts, response, outcome>>

(***************************************************************************)
(* Python values                                                           *)
(***************************************************************************)
StrVal(chars) == [t |-> "str", s |-> chars, n |-> 0]
IntVal(i) == [t |-> "int", s |-> <<>>, n |-> i]
BoolVal(b) == [t |-> "bool", s |-> <<>>, n |-> IF b THEN 1 ELSE 0]
None == [t |-> "NoneType", s |-> <<>>, n |-> 0]
\* an argument the caller did not pass
Omitted == [t |-> "omitted", s |-> <<>>, n |-> 0]

\* bool(v): the truth value Python gives v in `if v`, `any(...)`, `v and ...`
Truthy(v) ==
    CASE v.t = "str" -> v.s # <<>>
      [] v.t \in {"int", "bool"} -> v.n # 0
      [] OTHER -> FALSE

\* a == b on the values above (True == 1 and False == 0 in Python)
PyEq(a, b) ==
    CASE a.t = "str" /\ b.t = "str" -> a.s = b.s
      [] a.t \in {"int", "bool"} /\ b.t \in {"int", "bool"} -> a.n = b.n
      [] a.t = "NoneType" /\ b.t = "NoneType" -> TRUE
      [] OTHER -> FALSE

\* "".join(chars): the characters as one string
RECURSIVE Text(_)
Text(chars) == IF chars = <<>> THEN "" ELSE Head(chars) \o Text(Tail(chars))

DigitText(d) == <<"0", "1", "2", "3", "4", "5", "6", "7", "8", "9">>[d + 1]

RECURSIVE NatText(_)
NatText(i) == IF i < 10 THEN DigitText(i) ELSE NatText(i \div 10) \o DigitText(i % 10)

\* str(v)
PyStr(v) ==
    CASE v.t = "str" -> Text(v.s)
      [] v.t = "int" -> IF v.n < 0 THEN "-" \o NatText(-v.n) ELSE NatText(v.n)
      [] v.t = "bool" -> IF v.n = 1 THEN "True" ELSE "False"
      [] OTHER -> "None"

\* sep.join(names)
RECURSIVE Join(_, _)
Join(names, sep) ==
    IF names = <<>> THEN ""
    ELSE IF Len(names) = 1 THEN names[1]
    ELSE names[1] \o sep \o Join(Tail(names), sep)

(***************************************************************************)
(* Errors: what a validator raises, or NoError when it returns.            *)
(***************************************************************************)
NoError == [exc |-> "", param |-> "", message |-> ""]
Raise(exc, param, message) == [exc |-> exc, param |-> param, message |-> message]

\* the first error of a sequence of checks run one after the other
RECURSIVE FirstError(_)
FirstError(checks) ==
    IF checks = <<>> THEN NoError
    ELSE IF Head(checks) # NoError THEN Head(checks)
    ELSE FirstError(Tail(checks))

(***************************************************************************)
(* Regular expressions, as the sets of positions a match can end at.       *)
(* A position p is before the character s[p]; Len(s) + 1 is the end.       *)
(***************************************************************************)
\* \d, [0-9a-fA-F] and \s on the characters the strings tried are made of
\* (for a str pattern \d and \s match further Unicode digits and spaces too)
DigitChars == {"0", "1", "2", "3", "4", "5", "6", "7", "8", "9"}
HexChars == DigitChars \cup {"a", "b", "c", "d", "e", "f", "A", "B", "C", "D", "E", "F"}
SpaceChars == {" ", "\t", "\n", "\r", "\f"}

\* one character of the class, from any of the positions P
OneOf(class, s, P) == {p + 1 : p \in {q \in P : q <= Len(s) /\ s[q] \in class}}

\* class+ : one or more characters of the class
RECURSIVE Many(_, _, _)
Many(class, s, P) ==
    LET next == OneOf(class, s, P)
    IN  IF next = {} THEN {} ELSE next \cup Many(class, s, next)

\* class{n} : exactly n characters of the class
RECURSIVE Times(_, _, _, _)
Times(class, n, s, P) ==
    IF n = 0 THEN P ELSE Times(class, n - 1, s, OneOf(class, s, P))

\* $ without re.MULTILINE: the end of the string, or just before a newline
\* that ends the string
EndAnchor(s, P) == {p \in P : p = Len(s) + 1 \/ (p = Len(s) /\ s[p] = "\n")}

\* pattern.match(s) where the code has pattern.fullmatch(s): a match from the
\* start that ends anywhere
MatchAtStart(s, ends) == ends # {}

\* pattern.fullmatch(s): a match from the start that ends at the end
FullMatch(s, ends) == (Len(s) + 1) \in ends

(***************************************************************************)
(* utils.py: the validators                                                *)
(***************************************************************************)
\* the options of validate_param: a tuple or a list of values
Tuple(items) == [kind |-> "tuple", items |-> items]
List(items) == [kind |-> "list", items |-> items]

\* value in options
In(value, items) == \E i \in 1..Len(items) : PyEq(value, items[i])

\* param_exists with all(params) where the code has any(params)
param_exists_all(names, params) ==
    IF ~(\A i \in 1..Len(params) : Truthy(params[i]))
    THEN Raise("ValueError", Join(names, ", "),
               "Either " \o Join(names, ", ") \o " must be provided")
    ELSE NoError

param_exists(names, params) ==
    IF ~(\E i \in 1..Len(params) : Truthy(params[i]))
    THEN Raise("ValueError", Join(names, ", "),
               "Either " \o Join(names, ", ") \o " must be provided")
    ELSE NoError

validate_param(name, param, options) ==
    IF options.kind = "tuple" /\ Len(options.items) = 2
    THEN LET start == options.items[1]
             end == options.items[2]
         IN  IF ~Truthy(param) THEN NoError
             ELSE IF param.t \notin {"int", "bool"}
             THEN Raise("TypeError", name, "'<=' not supported")
             ELSE IF ~(start.n <= param.n /\ param.n <= end.n)
             THEN Raise("ValueError", name,
                        "Invalid value: " \o name \o ". Valid range is: "
                        \o PyStr(start) \o " to " \o PyStr(end))
             ELSE NoError
    ELSE IF options.kind = "list"
    THEN IF ~In(param, options.items)
         THEN Raise("ValueError", name,
                    "Invalid value: " \o name \o ". Valid options are: "
                    \o Join([i \in 1..Len(options.items) |-> PyStr(options.items[i])], ", "))
         ELSE NoError
    ELSE Raise("ValueError", name, "Invalid value and options provided for " \o name)

\* re.compile(r"^#[0-9a-fA-F]{6}$").match(color)
HexPattern(color) == EndAnchor(color, Times(HexChars, 6, color, OneOf({"#"}, color, {1})))

validate_hex(name, color) ==
    IF HexPattern(color) = {}
    THEN Raise("ValueError", name,
               "Invalid value: " \o name \o ". Hex color code provided: " \o Text(color))
    ELSE NoError

\* (\d+\.\d+%|\d+px)
CssSize(s, P) ==
    OneOf({"%"}, s, Many(DigitChars, s, OneOf({"."}, s, Many(DigitChars, s, P))))
    \cup OneOf({"x"}, s, OneOf({"p"}, s, Many(DigitChars, s, P)))

\* (\s+(\d+\.\d+%|\d+px)){0,n}
RECURSIVE CssMore(_, _, _)
CssMore(n, s, P) ==
    IF n = 0 \/ P = {} THEN P
    ELSE P \cup CssMore(n - 1, s, CssSize(s, Many(SpaceChars, s, P)))

\* re.compile(r"(\d+\.\d+%|\d+px)(\s+(\d+\.\d+%|\d+px)){0,3}")
CssPattern(css) == CssMore(3, css, CssSize(css, {1}))

validate_css(name, css) ==
    IF ~FullMatch(css, CssPattern(css))
    THEN Raise("ValueError", name,
               "Invalid value: " \o name \o ". CSS size provided: " \o Text(css))
    ELSE NoError

\* \d+(\.\d+)?
Number(s, P) ==
    LET whole == Many(DigitChars, s, P)
    IN  whole \cup Many(DigitChars, s, OneOf({"."}, s, whole))

\* re.compile(r"(\d+(\.\d+)?\s+\d+(\.\d+)?)")
WhPattern(wh) == Number(wh, Many(SpaceChars, wh, Number(wh, {1})))

validate_wh(name, wh) ==
    IF ~FullMatch(wh, WhPattern(wh))
    THEN Raise("ValueError", name,
               "Invalid value: " \o name \o ". Width height provided: " \o Text(wh))
    ELSE NoError

(***************************************************************************)
(* client.py: the signature of remove_background                           *)
(***************************************************************************)
Params == <<"image_path", "image_base64", "image_url", "max_pixels",
            "background_color", "result_crop_to_foreground", "result_margin",
            "result_target_size", "result_vertical_alignment", "output_format",
            "output_jpeg_quality">>

ParamNames == {Params[i] : i \in 1..Len(Params)}

S_0px == <<"0", "p", "x">>
S_top == <<"t", "o", "p">>
S_middle == <<"m", "i", "d", "d", "l", "e">>
S_bottom == <<"b", "o", "t", "t", "o", "m">>
S_auto == <<"a", "u", "t", "o">>
S_png == <<"p", "n", "g">>
S_jpeg == <<"j", "p", "e", "g">>
S_delta_png == <<"d", "e", "l", "t", "a", "_", "p", "n", "g">>

\* the default of each parameter
Default ==
    [image_path |-> StrVal(<<>>),
     image_base64 |-> StrVal(<<>>),
     image_url |-> StrVal(<<>>),
     max_pixels |-> IntVal(25000000),
     background_color |-> None,
     result_crop_to_foreground |-> BoolVal(FALSE),
     result_margin |-> StrVal(S_0px),
     result_target_size |-> None,
     result_vertical_alignment |-> StrVal(S_middle),
     output_format |-> StrVal(S_auto),
     output_jpeg_quality |-> IntVal(75)]

\* the annotation of each parameter: the runtime types isinstance accepts
\* (a bool is an int)
Annotation ==
    [image_path |-> {"str"},
     image_base64 |-> {"str"},
     image_url |-> {"str"},
     max_pixels |-> {"int", "bool"},
     background_color |-> {"str", "NoneType"},
     result_crop_to_foreground |-> {"bool"},
     result_margin |-> {"str"},
     result_target_size |-> {"str", "NoneType"},
     result_vertical_alignment |-> {"str"},
     output_format |-> {"str"},
     output_jpeg_quality |-> {"int", "bool"}]

\* str(annotation)
AnnotationText(types) ==
    CASE types = {"str"} -> "<class 'str'>"
      [] types = {"int", "bool"} -> "<class 'int'>"
      [] types = {"bool"} -> "<class 'bool'>"
      [] OTHER -> "typing.Optional[str]"

\* sig.bind(...) and bound.apply_defaults(): the arguments with the defaults
\* of those the caller left out
Bind(kw) == [p \in ParamNames |-> IF kw[p] = Omitted THEN Default[p] ELSE kw[p]]

\* the loop of enforce_types' wrapper over the bound arguments, in the order
\* of the signature
enforce_types(bound) ==
    FirstError([i \in 1..Len(Params) |->
        IF bound[Params[i]].t \notin Annotation[Params[i]]
        THEN Raise("TypeError", Params[i],
                   "Argument " \o Params[i] \o " must be of type "
                   \o AnnotationText(Annotation[Params[i]]))
        ELSE NoError])

\* the validators of remove_background, in the order it calls them
Validators(a) ==
    <<param_exists(<<"image_path", "image_base64", "image_url">>,
                   <<a.image_path, a.image_base64, a.image_url>>),
      validate_param("max_pixels", a.max_pixels, Tuple(<<IntVal(100), IntVal(25000000)>>)),
      IF Truthy(a.background_color)
      THEN validate_hex("background_color", a.background_color.s) ELSE NoError,
      validate_param("result_crop_to_foreground", a.result_crop_to_foreground,
                     List(<<BoolVal(TRUE), BoolVal(FALSE)>>)),
      validate_css("result_margin", a.result_margin.s),
      IF Truthy(a.result_target_size)
      THEN validate_wh("result_target_size", a.result_target_size.s) ELSE NoError,
      validate_param("result_vertical_alignment", a.result_vertical_alignment,
                     List(<<StrVal(S_top), StrVal(S_middle), StrVal(S_bottom)>>)),
      validate_param("output_format", a.output_format,
                     List(<<StrVal(S_auto), StrVal(S_png), StrVal(S_jpeg), StrVal(S_delta_png)>>)),
      validate_param("output_jpeg_quality", a.output_jpeg_quality,
                     Tuple(<<IntVal(1), IntVal(100)>>))>>

\* ArgumentError with the validators run before the types are enforced
ArgumentErrorValidatingFirst(kw) ==
    LET valueError == FirstError(Validators(Bind(kw)))
    IN  IF valueError # NoError THEN valueError ELSE enforce_types(Bind(kw))

\* what the wrapper and the validators raise for the arguments, if anything
ArgumentError(kw) ==
    LET typeError == enforce_types(Bind(kw))
    IN  IF typeError # NoError THEN typeError ELSE FirstError(Validators(Bind(kw)))

(***************************************************************************)
(* client.py: the body of remove_background                                *)
(***************************************************************************)
url == "https://api.pixian.ai/api/v2/remove-background"

\* requests.codes.ok
requests_codes_ok == 200

\* {}
EmptyDict == [k \in {} |-> None]

\* the `data` dict as first built: the key of each field and the parameter
\* it is set from
DataParam ==
    [k \in {"max_pixels", "background.color", "result.crop_to_foreground",
            "result.margin", "result.target_size", "result.vertical_alignment",
            "output.format", "output.jpeg_quality"} |->
        CASE k = "max_pixels" -> "max_pixels"
          [] k = "background.color" -> "background_color"
          [] k = "result.crop_to_foreground" -> "result_crop_to_foreground"
          [] k = "result.margin" -> "result_margin"
          [] k = "result.target_size" -> "result_target_size"
          [] k = "result.vertical_alignment" -> "result_vertical_alignment"
          [] k = "output.format" -> "output_format"
          [] OTHER -> "output_jpeg_quality"]

\* Payload with output.jpeg_quality set from max_pixels
PayloadMisassigned(a) ==
    [k \in DOMAIN DataParam |->
        IF k = "output.jpeg_quality" THEN a.max_pixels ELSE a[DataParam[k]]]

Payload(a) == [k \in DOMAIN DataParam |-> a[DataParam[k]]]

\* data.update({key: value})
Update(dict, key, value) ==
    [k \in DOMAIN dict \cup {key} |-> IF k = key THEN value ELSE dict[k]]

\* open(image_path, "rb")
FileObject(path) == [path |-> path, mode |-> "rb"]

NoResponse == [status_code |-> 0, content |-> <<>>, text |-> ""]
NoOutcome == [kind |-> "none", exc |-> "", param |-> "", message |-> "", content |-> <<>>]

\* raise exc
Raised(err) ==
    [kind |-> "raise", exc |-> err.exc, param |-> err.param,
     message |-> err.message, content |-> <<>>]

\* PixianAIException(message=text)
PixianAIException(text) == Raise("PixianAIException", "", text)

\* return PixianAIResponse(content)
PixianAIResponse(content) ==
    [kind |-> "return", exc |-> "", param |-> "", message |-> "", content |-> content]

\* ImageData with `if` where the code has `elif`: every source given is added
ImageDataWithoutPrecedence(a, d) ==
    LET withBase64 == IF Truthy(a.image_base64)
                      THEN Update(d, "image.base64", a.image_base64) ELSE d
    IN  IF Truthy(a.image_url)
        THEN Update(withBase64, "image.url", a.image_url) ELSE withBase64

\* the image source added to `data`: none when a path is given, else the
\* base64 string, else the URL
ImageData(a, d) ==
    IF Truthy(a.image_path) THEN d
    ELSE IF Truthy(a.image_base64) THEN Update(d, "image.base64", a.image_base64)
    ELSE IF Truthy(a.image_url) THEN Update(d, "image.url", a.image_url)
    ELSE d

\* Outcome with response.ok (any status below 400) where the code compares
\* with requests.codes.ok
OutcomeOfAnySuccess(r) ==
    IF ~(r.status_code < 400)
    THEN Raised(PixianAIException(r.text))
    ELSE PixianAIResponse(r.content)

\* what the call gives its caller for the response r
Outcome(r) ==
    IF ~(r.status_code = requests_codes_ok)
    THEN Raised(PixianAIException(r.text))
    ELSE PixianAIResponse(r.content)

\* the request of one requests.post call
Request(d, f) == [url |-> url, data |-> d, files |-> f, auth |-> <<api_id, api_secret>>]

(***************************************************************************)
(* The environment: the caller's arguments, the file system, the transport *)
(***************************************************************************)
\* the longest background_color tried
MaxHexLen == 8
\* the most sizes in a result_margin tried
MaxCssSizes == 5
\* how far around 0 and around each end of a range the integers tried lie
MaxProbe == 2

S_photo == <<"p", ".", "j", "p", "g">>
S_base64 == <<"a", "G", "k", "=">>
S_url == <<"h", "t", "t", "p", ":", "/", "/", "x">>
S_invalid == <<"i", "n", "v", "a", "l", "i", "d">>

AllOmitted == [p \in ParamNames |-> Omitted]

\* calls that mix the image sources, valid and invalid values, and arguments
\* left out
ApiCalls ==
    [image_path : {Omitted, StrVal(S_photo)},
     image_base64 : {Omitted, StrVal(S_base64)},
     image_url : {Omitted, StrVal(S_url), None},
     max_pixels : {Omitted, IntVal(100), IntVal(99)},
     background_color : {Omitted, StrVal(<<"#", "A", "a", "B", "b", "0", "9">>),
                         StrVal(<<"Z", "Z", "Z">>)},
     result_crop_to_foreground : {Omitted, BoolVal(TRUE)},
     result_margin : {Omitted, StrVal(<<"1", "p", "x", " ", "2", ".", "5", "%">>),
                      StrVal(S_invalid)},
     result_target_size : {Omitted, StrVal(<<"1", "9", "2", "0", " ", "1", "0", "8", "0">>),
                           StrVal(<<"1", "0", "p", "x", " ", "2", "0", "p", "x">>)},
     result_vertical_alignment : {Omitted, StrVal(S_top), StrVal(S_invalid)},
     output_format : {Omitted, StrVal(S_delta_png), StrVal(S_invalid)},
     output_jpeg_quality : {Omitted, IntVal(100), IntVal(101)}]

\* a call with an image URL and the given arguments, the rest left out
UrlCall(given) ==
    [p \in ParamNames |->
        IF p \in DOMAIN given THEN given[p]
        ELSE IF p = "image_url" THEN StrVal(S_url) ELSE Omitted]

\* the integers around 0 and around the ends of the range lo..hi
Probes(lo, hi) ==
    {base + d : base \in {0, lo, hi}, d \in (0 - MaxProbe)..MaxProbe}

RangeCalls ==
    {UrlCall([max_pixels |-> IntVal(m), output_jpeg_quality |-> IntVal(q)]) :
        m \in Probes(100, 25000000), q \in Probes(1, 100)}

\* all strings of at most n of the characters
Strings(chars, n) == UNION {[1..k -> chars] : k \in 0..n}

HexAlphabet == {"#", "3", "c", "D", "\n"}

HexCalls ==
    {UrlCall([background_color |-> StrVal(s)]) : s \in Strings(HexAlphabet, MaxHexLen)}

\* the strings between and around the sizes of a margin
CssSizes == {<<"1", "0", "p", "x">>, <<"2", ".", "5", "%">>, <<"7", "%">>, <<"p", "x">>}
CssGaps == {<<" ">>, <<"\t", "\n">>, <<>>}
CssPads == {<<>>, <<" ">>}

\* the sizes one after the other with the gap between them
RECURSIVE Joined(_, _)
Joined(sizes, gap) ==
    IF sizes = <<>> THEN <<>>
    ELSE IF Len(sizes) = 1 THEN sizes[1]
    ELSE sizes[1] \o gap \o Joined(Tail(sizes), gap)

CssStrings ==
    {before \o Joined(sizes, gap) \o after :
        sizes \in Strings(CssSizes, MaxCssSizes), gap \in CssGaps,
        before \in CssPads, after \in CssPads}

CssCalls == {UrlCall([result_margin |-> StrVal(s)]) : s \in CssStrings}

\* a call with an image path and nothing else
PathCall == [AllOmitted EXCEPT !.image_path = StrVal(S_photo)]

\* calls with several arguments invalid at once: of a type the annotation
\* does not accept, or of a value the validator refuses
OrderCalls ==
    [image_path : {Omitted, StrVal(S_photo), None},
     image_base64 : {Omitted, IntVal(1)},
     image_url : {Omitted, StrVal(S_url)},
     max_pixels : {Omitted, IntVal(99), StrVal(<<"1", "0", "0">>), BoolVal(TRUE)},
     background_color : {Omitted, StrVal(<<"Z", "Z", "Z">>), IntVal(5)},
     result_crop_to_foreground : {Omitted, IntVal(1)},
     result_margin : {Omitted, StrVal(S_invalid), None},
     result_target_size : {Omitted, StrVal(<<"1", "0", "p", "x", " ", "2", "0", "p", "x">>),
                           BoolVal(TRUE)},
     result_vertical_alignment : {Omitted, StrVal(S_invalid), None},
     output_format : {Omitted, StrVal(S_invalid), IntVal(1)},
     output_jpeg_quality : {Omitted, IntVal(101), StrVal(<<"7", "5">>)}]

Calls ==
    CASE profile = "api" -> ApiCalls
      [] profile = "order" -> OrderCalls
      [] profile = "range" -> RangeCalls \cup {PathCall}
      [] profile = "hex" -> HexCalls \cup {PathCall}
      [] OTHER -> CssCalls \cup {PathCall}

Credentials == {<<"id-1", "secret-1">>, <<"id-2", "secret-2">>}

Response(status_code, content, text) ==
    [status_code |-> status_code, content |-> content, text |-> text]

\* what the transport answers: a response, or an error of its own
Responses ==
    {Response(200, <<111, 107>>, "ok"),
     Response(200, <<>>, ""),
     Response(201, <<111, 107>>, "ok"),
     Response(400, <<98, 97, 100>>, "bad request"),
     Response(500, <<>>, "")}

Transport ==
    {[ok |-> TRUE, response |-> r] : r \in Responses}
    \cup {[ok |-> FALSE, response |-> NoResponse]}

(***************************************************************************)
(* The state machine                                                       *)
(***************************************************************************)
\* PixianAI(api_id, api_secret), and no call yet
Constructed(credentials) ==
    /\ api_id = credentials[1]
    /\ api_secret = credentials[2]
    /\ pc = "idle"
    /\ kwargs = AllOmitted
    /\ data = EmptyDict
    /\ files = EmptyDict
    /\ handle = "none"
    /\ opened = <<>>
    /\ posts = <<>>
    /\ response = NoResponse
    /\ outcome = NoOutcome

Init == profile = "api" /\ \E c \in Credentials : Constructed(c)
InitRange == profile = "range" /\ Constructed(<<"id-1", "secret-1">>)
InitHex == profile = "hex" /\ Constructed(<<"id-1", "secret-1">>)
InitCss == profile = "css" /\ Constructed(<<"id-1", "secret-1">>)
InitOrder == profile = "order" /\ Constructed(<<"id-1", "secret-1">>)

\* Call with the file opened before the arguments are checked
CallOpeningFirst(kw) ==
    /\ kwargs' = kw
    /\ files' = EmptyDict
    /\ handle' = "none"
    /\ opened' = IF Truthy(Bind(kw).image_path)
                 THEN <<FileObject(Bind(kw).image_path.s)>> ELSE <<>>
    /\ posts' = <<>>
    /\ response' = NoResponse
    /\ IF ArgumentError(kw) # NoError
       THEN /\ outcome' = Raised(ArgumentError(kw))
            /\ data' = EmptyDict
            /\ pc' = "done"
       ELSE /\ outcome' = NoOutcome
            /\ data' = Payload(Bind(kw))
            /\ pc' = "built"
    /\ UNCHANGED <<api_id, api_secret, profile>>

\* The caller calls remove_background: the wrapper of enforce_types, the
\* validators, and the `files` and `data` dicts as first built.
Call(kw) ==
    /\ kwargs' = kw
    /\ files' = EmptyDict
    /\ handle' = "none"
    /\ opened' = <<>>
    /\ posts' = <<>>
    /\ response' = NoResponse
    /\ IF ArgumentError(kw) # NoError
       THEN /\ outcome' = Raised(ArgumentError(kw))
            /\ data' = EmptyDict
            /\ pc' = "done"
       ELSE /\ outcome' = NoOutcome
            /\ data' = Payload(Bind(kw))
            /\ pc' = "built"
    /\ UNCHANGED <<api_id, api_secret, profile>>

\* The image source is put into the request: the file is opened, or the
\* base64 string or the URL added to `data`. open() may fail.
AttachImage ==
    /\ pc = "built"
    /\ LET a == Bind(kwargs)
       IN  IF Truthy(a.image_path)
           THEN /\ opened' = Append(opened, FileObject(a.image_path.s))
                /\ data' = ImageData(a, data)
                /\ \E found \in BOOLEAN :
                      IF found
                      THEN /\ files' = [image |-> FileObject(a.image_path.s)]
                           /\ handle' = "open"
                           /\ outcome' = outcome
                           /\ pc' = "ready"
                      ELSE /\ files' = files
                           /\ handle' = handle
                           /\ outcome' = Raised(Raise("OSError", "", "open failed"))
                           /\ pc' = "done"
           ELSE /\ data' = ImageData(a, data)
                /\ pc' = "ready"
                /\ UNCHANGED <<files, handle, opened, outcome>>
    /\ UNCHANGED <<api_id, api_secret, profile, kwargs, posts, response>>

\* Post with the request sent again after a status other than 200
PostRetrying ==
    /\ pc = "ready"
    /\ posts' = Append(posts, Request(data, files))
    /\ \E t \in Transport :
          IF ~t.ok
          THEN /\ response' = response
               /\ outcome' = Raised(Raise("RequestException", "", "transport failed"))
               /\ pc' = "done"
          ELSE /\ response' = t.response
               /\ outcome' = Outcome(t.response)
               /\ pc' = IF t.response.status_code = requests_codes_ok
                        THEN "done" ELSE "ready"
    /\ UNCHANGED <<api_id, api_secret, profile, kwargs, data, files, handle, opened>>

\* requests.post and what follows it: the transport fails, or answers and
\* the status decides between the exception and the result.
Post ==
    /\ pc = "ready"
    /\ posts' = Append(posts, Request(data, files))
    /\ \E t \in Transport :
          IF ~t.ok
          THEN /\ response' = response
               /\ outcome' = Raised(Raise("RequestException", "", "transport failed"))
          ELSE /\ response' = t.response
               /\ outcome' = Outcome(t.response)
    /\ pc' = "done"
    /\ UNCHANGED <<api_id, api_secret, profile, kwargs, data, files, handle, opened>>

\* Nothing in remove_background closes the file object: it is closed when
\* the interpreter finalizes it, some time after the call has finished and
\* nothing refers to `files` any more.
Finalize ==
    /\ pc = "done"
    /\ handle = "open"
    /\ handle' = "closed"
    /\ UNCHANGED <<api_id, api_secret, profile, pc, kwargs, data, files,
                   opened, posts, response, outcome>>

\* The caller has taken the result or the exception; the locals of the call
\* are gone and the client is as it was constructed.
Returned ==
    /\ pc = "done"
    /\ pc' = "idle"
    /\ kwargs' = AllOmitted
    /\ data' = EmptyDict
    /\ files' = EmptyDict
    /\ handle' = "none"
    /\ opened' = <<>>
    /\ posts' = <<>>
    /\ response' = NoResponse
    /\ outcome' = NoOutcome
    /\ UNCHANGED <<api_id, api_secret, profile>>

Next ==
    \/ pc = "idle" /\ \E kw \in Calls : Call(kw)
    \/ AttachImage
    \/ Post
    \/ Finalize
    \/ Returned

Spec == Init /\ [][Next]_vars
SpecRange == InitRange /\ [][Next]_vars
SpecHex == InitHex /\ [][Next]_vars
SpecCss == InitCss /\ [][Next]_vars
SpecOrder == InitOrder /\ [][Next]_vars

(***************************************************************************)
(* Properties                                                              *)
(***************************************************************************)
\* the arguments of the current call with the defaults filled in
Args == Bind(kwargs)

ImageKeys == {"image.base64", "image.url"}

\* C1: a call whose arguments fail the type check or a validator raises its
\* TypeError or ValueError with no requests.post issued and no file opened,
\* also when image_path is not empty.
C1_ErrorBeforeEffects ==
    /\ (pc # "idle" /\ ArgumentError(kwargs) # NoError) =>
          /\ pc = "done"
          /\ outcome.kind = "raise"
          /\ outcome.exc \in {"TypeError", "ValueError"}
          /\ posts = <<>>
          /\ opened = <<>>
          /\ handle = "none"
    /\ (outcome.kind = "raise" /\ outcome.exc \in {"TypeError", "ValueError"}) =>
          posts = <<>> /\ opened = <<>> /\ handle = "none"

C1_Witness ==
    /\ pc = "done"
    /\ Truthy(kwargs.image_path)
    /\ outcome.kind = "raise"
    /\ outcome.exc = "ValueError"
    /\ outcome.param = "result_margin"

\* C2: once the transport has returned a response, the status alone decides:
\* 200 gives a PixianAIResponse whose content is the response's content,
\* any other status a PixianAIException whose message is the response's
\* text, and no result.
C2_StatusDecides ==
    (pc = "done" /\ response # NoResponse) =>
        IF response.status_code = 200
        THEN /\ outcome.kind = "return"
             /\ outcome.content = response.content
        ELSE /\ outcome.kind = "raise"
             /\ outcome.exc = "PixianAIException"
             /\ outcome.message = response.text
             /\ outcome.content = <<>>

C2_Witness ==
    /\ pc = "done"
    /\ response.status_code = 201
    /\ outcome.kind = "raise"
    /\ outcome.exc = "PixianAIException"
    /\ outcome.message = "ok"

\* the image sources a request carries
SourcesOf(request) ==
    {k \in DOMAIN request.files : k = "image"} \cup (DOMAIN request.data \cap ImageKeys)

\* C3: every request carries exactly one image source: the file opened from
\* image_path when image_path is not empty, else image.base64 when
\* image_base64 is not empty, else image.url.
C3_OneImageSource ==
    \A i \in 1..Len(posts) :
        LET request == posts[i]
        IN  /\ DOMAIN request.files \subseteq {"image"}
            /\ Cardinality(SourcesOf(request)) = 1
            /\ IF Args.image_path.s # <<>>
               THEN /\ SourcesOf(request) = {"image"}
                    /\ request.files["image"] = [path |-> Args.image_path.s, mode |-> "rb"]
               ELSE IF Args.image_base64.s # <<>>
               THEN /\ SourcesOf(request) = {"image.base64"}
                    /\ request.data["image.base64"] = Args.image_base64
               ELSE /\ SourcesOf(request) = {"image.url"}
                    /\ request.data["image.url"] = Args.image_url
                    /\ Args.image_url.s # <<>>

C3_Witness ==
    /\ Len(posts) = 1
    /\ kwargs.image_path = Omitted
    /\ Truthy(kwargs.image_base64)
    /\ Truthy(kwargs.image_url)
    /\ DOMAIN posts[1].data \cap ImageKeys = {"image.base64"}

\* the argument given for a parameter, or the default the signature states
GivenOr(param, default) == IF kwargs[param] = Omitted THEN default ELSE kwargs[param]

C5_ImageSourceCheck ==
    (pc # "idle" /\ enforce_types(Args) = NoError) =>
        LET allEmpty == /\ Args.image_path.s = <<>>
                        /\ Args.image_base64.s = <<>>
                        /\ Args.image_url.s = <<>>
            raised == /\ pc = "done"
                      /\ outcome.kind = "raise"
                      /\ outcome.exc = "ValueError"
                      /\ outcome.message =
                            "Either image_path, image_base64, image_url must be provided"
        IN  allEmpty <=> raised

C5_Witness ==
    /\ pc = "done"
    /\ kwargs.image_path = Omitted
    /\ kwargs.image_base64 = Omitted
    /\ kwargs.image_url = Omitted
    /\ kwargs.output_format # Omitted
    /\ outcome.message = "Either image_path, image_base64, image_url must be provided"

\* a call that passed the image-source check with more than one source given
C5_SeveralSources ==
    /\ pc = "built"
    /\ Truthy(kwargs.image_path)
    /\ Truthy(kwargs.image_url)

\* C6: with the other arguments valid, an integer max_pixels passes exactly
\* when it is in 100..25000000 and an integer output_jpeg_quality exactly when
\* it is in 1..100; any integer outside its range gives a ValueError.
C6_RangesEnforced ==
    (/\ pc = "done"
     /\ kwargs.max_pixels.t = "int"
     /\ kwargs.output_jpeg_quality.t = "int") =>
        LET inRange == /\ 100 <= kwargs.max_pixels.n
                       /\ kwargs.max_pixels.n <= 25000000
                       /\ 1 <= kwargs.output_jpeg_quality.n
                       /\ kwargs.output_jpeg_quality.n <= 100
        IN  inRange <=> ~(outcome.kind = "raise" /\ outcome.exc = "ValueError")

\* '#' and six hexadecimal digits, and nothing else
IsHexColor(s) ==
    /\ Len(s) = 7
    /\ s[1] = "#"
    /\ \A i \in 2..7 : s[i] \in HexChars

\* C7: validate_hex, and remove_background for a background_color that is
\* given, accept a string exactly when the whole of it is '#' and six
\* hexadecimal digits; any other string gives a ValueError.
C7_HexColorOnly ==
    (pc # "idle" /\ kwargs.background_color.t = "str") =>
        LET color == kwargs.background_color.s
        IN  /\ (validate_hex("background_color", color) = NoError) <=> IsHexColor(color)
            /\ (pc = "done" /\ color # <<>>) =>
                  ((outcome.kind = "raise" /\ outcome.exc = "ValueError")
                      <=> ~IsHexColor(color))

\* the tokens of s: the longest runs of characters that are not whitespace,
\* each as its first and last position
TokensOf(s) ==
    {run \in (1..Len(s)) \X (1..Len(s)) :
        /\ run[1] <= run[2]
        /\ \A i \in run[1]..run[2] : s[i] \notin SpaceChars
        /\ run[1] = 1 \/ s[run[1] - 1] \in SpaceChars
        /\ run[2] = Len(s) \/ s[run[2] + 1] \in SpaceChars}

\* <integer>px
IsPx(token) ==
    /\ Len(token) >= 3
    /\ token[Len(token) - 1] = "p"
    /\ token[Len(token)] = "x"
    /\ \A i \in 1..(Len(token) - 2) : token[i] \in DigitChars

\* <decimal>%: digits, a point, digits, and the percent sign
IsPercent(token) ==
    /\ Len(token) >= 4
    /\ token[Len(token)] = "%"
    /\ \E point \in 2..(Len(token) - 2) :
          /\ token[point] = "."
          /\ \A i \in (1..(Len(token) - 1)) \ {point} : token[i] \in DigitChars

\* one to four tokens with whitespace between them (none before the first
\* or after the last), each <integer>px or <decimal>%
IsMargin(s) ==
    /\ s # <<>>
    /\ s[1] \notin SpaceChars
    /\ s[Len(s)] \notin SpaceChars
    /\ Cardinality(TokensOf(s)) \in 1..4
    /\ \A run \in TokensOf(s) :
          IsPx(SubSeq(s, run[1], run[2])) \/ IsPercent(SubSeq(s, run[1], run[2]))

\* C8: validate_css, and remove_background for result_margin, accept a string
\* exactly when it is one to four tokens separated by whitespace, each of
\* the form <integer>px or <decimal>%; no token, five or more tokens, or a
\* token of another form gives a ValueError.
C8_MarginOneToFourSizes ==
    (pc # "idle" /\ kwargs.result_margin.t = "str") =>
        LET css == kwargs.result_margin.s
        IN  /\ (validate_css("result_margin", css) = NoError) <=> IsMargin(css)
            /\ pc = "done" =>
                  ((/\ outcome.kind = "raise"
                    /\ outcome.exc = "ValueError"
                    /\ outcome.param = "result_margin") <=> ~IsMargin(css))

C8_Witness ==
    /\ pc = "done"
    /\ kwargs.result_margin.t = "str"
    /\ Cardinality(TokensOf(kwargs.result_margin.s)) = 4
    /\ \E i \in 1..Len(kwargs.result_margin.s) : kwargs.result_margin.s[i] = "%"
    /\ outcome.kind = "return"

\* a margin of five sizes, each of a valid form, is refused
C8_FiveSizes ==
    /\ pc = "done"
    /\ kwargs.result_margin.t = "str"
    /\ Cardinality(TokensOf(kwargs.result_margin.s)) = 5
    /\ \A run \in TokensOf(kwargs.result_margin.s) :
          IsPx(SubSeq(kwargs.result_margin.s, run[1], run[2]))
    /\ outcome.exc = "ValueError"

\* C9: once a call with an image_path has finished, with a result, a
\* PixianAIException or a transport error, the file object it opened is
\* closed.
C9_HandleClosedAfterCall ==
    (pc = "done" /\ handle # "none") => handle = "closed"

\* C10: a call issues at most one requests.post, and exactly one when the
\* type check and the validators pass and the image file, if any, opens;
\* after a status other than 200 or a transport error nothing is sent again
\* and the failure is raised.
C10_OnePost ==
    /\ Len(posts) <= 1
    /\ pc = "done" =>
          LET passed == ArgumentError(kwargs) = NoError
              fileOpen == Args.image_path.s = <<>> \/ handle \in {"open", "closed"}
          IN  /\ (passed /\ fileOpen) <=> Len(posts) = 1
              /\ (Len(posts) = 1 /\ ~(response.status_code = 200)) =>
                    /\ outcome.kind = "raise"
                    /\ outcome.exc \in {"PixianAIException", "RequestException"}

C10_Witness ==
    /\ pc = "done"
    /\ Len(posts) = 1
    /\ response.status_code = 500
    /\ outcome.kind = "raise"
    /\ outcome.exc = "PixianAIException"

\* the runtime types each parameter is declared to take (a bool is an int,
\* as isinstance has it)
Declared(param) ==
    CASE param \in {"max_pixels", "output_jpeg_quality"} -> {"int", "bool"}
      [] param = "result_crop_to_foreground" -> {"bool"}
      [] param \in {"background_color", "result_target_size"} -> {"str", "NoneType"}
      [] OTHER -> {"str"}

\* the checks in the order claimed, each as the exception it raises, the
\* name it raises it with, and whether it fails for the arguments a
ChecksInOrder(a) ==
    LET typeCheck(param) ==
            [exc |-> "TypeError", param |-> param, fails |-> a[param].t \notin Declared(param)]
        valueCheck(param, error) ==
            [exc |-> "ValueError", param |-> param, fails |-> error # NoError]
    IN  <<typeCheck("image_path"),
          typeCheck("image_base64"),
          typeCheck("image_url"),
          typeCheck("max_pixels"),
          typeCheck("background_color"),
          typeCheck("result_crop_to_foreground"),
          typeCheck("result_margin"),
          typeCheck("result_target_size"),
          typeCheck("result_vertical_alignment"),
          typeCheck("output_format"),
          typeCheck("output_jpeg_quality"),
          valueCheck("image_path, image_base64, image_url",
                     param_exists(<<"image_path", "image_base64", "image_url">>,
                                  <<a.image_path, a.image_base64, a.image_url>>)),
          valueCheck("max_pixels",
                     validate_param("max_pixels", a.max_pixels,
                                    Tuple(<<IntVal(100), IntVal(25000000)>>))),
          valueCheck("background_color",
                     IF Truthy(a.background_color)
                     THEN validate_hex("background_color", a.background_color.s)
                     ELSE NoError),
          valueCheck("result_crop_to_foreground",
                     validate_param("result_crop_to_foreground", a.result_crop_to_foreground,
                                    List(<<BoolVal(TRUE), BoolVal(FALSE)>>))),
          valueCheck("result_margin", validate_css("result_margin", a.result_margin.s)),
          valueCheck("result_target_size",
                     IF Truthy(a.result_target_size)
                     THEN validate_wh("result_target_size", a.result_target_size.s)
                     ELSE NoError),
          valueCheck("result_vertical_alignment",
                     validate_param("result_vertical_alignment", a.result_vertical_alignment,
                                    List(<<StrVal(S_top), StrVal(S_middle), StrVal(S_bottom)>>))),
          valueCheck("output_format",
                     validate_param("output_format", a.output_format,
                                    List(<<StrVal(S_auto), StrVal(S_png), StrVal(S_jpeg),
                                           StrVal(S_delta_png)>>))),
          valueCheck("output_jpeg_quality",
                     validate_param("output_jpeg_quality", a.output_jpeg_quality,
                                    Tuple(<<IntVal(1), IntVal(100)>>)))>>

\* the checks that fail, by their place in the order
FailingOf(checks) == {i \in 1..Len(checks) : checks[i].fails}

\* the first of them
FirstOf(checks) ==
    LET failing == FailingOf(checks)
    IN  checks[CHOOSE i \in failing : \A j \in failing : i <= j]

\* C11: the checks run in one order: the type of every argument in the order
\* of the signature, then the image-source check, then max_pixels,
\* background_color, result_crop_to_foreground, result_margin,
\* result_target_size, result_vertical_alignment, output_format,
\* output_jpeg_quality. With several inputs invalid the error raised is that
\* of the first failing check; an argument that is no instance of its
\* declared type gives a TypeError naming a parameter of a wrong type, never
\* a validator's ValueError.
C11_FirstFailingCheck ==
    pc # "idle" =>
        /\ LET checks == ChecksInOrder(Args)
           IN  IF FailingOf(checks) # {}
               THEN /\ pc = "done"
                    /\ outcome.kind = "raise"
                    /\ outcome.exc = FirstOf(checks).exc
                    /\ outcome.param = FirstOf(checks).param
               ELSE outcome.exc \notin {"TypeError", "ValueError"}
        /\ (\E param \in ParamNames : Args[param].t \notin Declared(param)) =>
              /\ outcome.exc = "TypeError"
              /\ outcome.param \in ParamNames
              /\ Args[outcome.param].t \notin Declared(outcome.param)

\* no image source, a max_pixels out of range and an output_format of the
\* wrong type at once: the TypeError of output_format is raised
C11_Witness ==
    /\ pc = "done"
    /\ Args.image_path.s = <<>> /\ kwargs.image_base64 = Omitted /\ kwargs.image_url = Omitted
    /\ kwargs.max_pixels = IntVal(99)
    /\ kwargs.result_margin = StrVal(S_invalid)
    /\ kwargs.output_format = IntVal(1)
    /\ kwargs.output_jpeg_quality = StrVal(<<"7", "5">>)
    /\ Cardinality(FailingOf(ChecksInOrder(Args))) >= 5
    /\ outcome.exc = "TypeError"
    /\ outcome.param = "output_format"

\* several values refused and every type right: the ValueError of the first
\* validator in the order is raised
C11_SeveralValues ==
    /\ pc = "done"
    /\ Truthy(kwargs.image_url)
    /\ kwargs.max_pixels = BoolVal(TRUE)
    /\ kwargs.background_color = StrVal(<<"Z", "Z", "Z">>)
    /\ kwargs.output_jpeg_quality = IntVal(101)
    /\ outcome.exc = "ValueError"
    /\ outcome.param = "max_pixels"

====
